---- MODULE Spec2Model ----
(***************************************************************************)
(* Planes Of Motion (POM) model of voxel robots: src/POM/pom.py.           *)
(*                                                                         *)
(* Vectors of three components (numpy arrays of shape (3,)) are functions  *)
(* over the axis indices 0..2, as the source indexes them.  Amounts are    *)
(* integers, on which numpy's float64 arithmetic is exact.                 *)
(***************************************************************************)
EXTENDS Integers, Sequences, FiniteSets

\* servos, effectors: the two lists of the Voxels object.
\* op, outcome, ret:   the last call made, how it ended ("ok" or the exception raised)
\*                     and what it returned (<<>> for a call that returns nothing).
\* input:              the arguments drawn for the calls of a scenario; under Spec,
\*                     the amounts of the last actuate call.
VARIABLES servos, effectors, op, outcome, ret, input

vars == <<servos, effectors, op, outcome, ret, input>>

\* ------------------------------------------------------------- bounds
\* Lattice coordinates are drawn from 0..MaxCoord.
MaxCoord == 1
\* Actuation amounts are drawn from -MaxAmount..MaxAmount.
MaxAmount == 1
\* Under Spec the assembly grows to at most MaxServos servos and MaxEffectors effectors.
MaxServos == 2
MaxEffectors == 1

Axes == 0..2
Coords == 0..MaxCoord
Amounts == (0 - MaxAmount)..MaxAmount
\* Node ids and directions a caller may pass: the valid ones and the nearest invalid ones.
NidInputs == (0 - 1)..6
DirInputs == 0..3
\* The integer scalars of the linearity check.
Scalars == (0 - 2)..2

\* ------------------------------------------------------------- the sign tensor
ATable ==
  << << <<0, 0, 0, 0, 0, 0>>, <<0, 0, 1, 0, 0, 0 - 1>>, <<0, 0 - 1, 0, 0, 1, 0>> >>,
     << <<0, 0, 0 - 1, 0, 0, 1>>, <<0, 0, 0, 0, 0, 0>>, <<1, 0, 0, 0 - 1, 0, 0>> >>,
     << <<0, 1, 0, 0, 0 - 1, 0>>, <<0 - 1, 0, 0, 1, 0, 0>>, <<0, 0, 0, 0, 0, 0>> >> >>

\* A[p, d, n]
A(p, d, n) == ATable[p + 1][d + 1][n + 1]

\* ------------------------------------------------------------- Node
\* Mutant: the assertion written as nid in range(7).
NodeAccepts_range7(x, y, z, nid) == nid \in 0..6

\* assert nid in range(6)
NodeAccepts(x, y, z, nid) == nid \in 0..5

\* Node.__init__: the object it builds when the assertion passes.
Node(x, y, z, nid) == [pos |-> [i \in Axes |-> CASE i = 0 -> x [] i = 1 -> y [] OTHER -> z],
                       id |-> nid]

\* Node.position, doubled: every component of the source's result is a multiple
\* of 0.5 (axis_offset is 0.5 except on axis id % 3, where it is id // 3).
position2(n) == [i \in Axes |-> (IF i = n.id % 3 THEN 2 * (n.id \div 3) ELSE 1) + 2 * n.pos[i]]

\* Mutant: the id // 3 shift of the higher ids left out.
_normalized_pos_noShift(n) == [i \in Axes |-> n.pos[i]]

\* self.pos + (np.arange(3) == self.id % 3) * (self.id // 3)
_normalized_pos(n) == [i \in Axes |-> n.pos[i] + (IF i = n.id % 3 THEN 1 ELSE 0) * (n.id \div 3)]

planes_match(n, other) == [i \in Axes |-> _normalized_pos(n)[i] = _normalized_pos(other)[i]]

\* ------------------------------------------------------------- Servo
\* Mutant: the check of node.id % 3 == direction left out.
ServoOutcome_noDegenerateCheck(node, direction) ==
  IF direction \notin 0..2 THEN "AssertionError" ELSE "ok"

\* Servo.__init__ ends in one of: the assertion on direction, the ValueError of a
\* direction equal to node.id % 3, or a built servo.
ServoOutcome(node, direction) ==
  IF direction \notin 0..2 THEN "AssertionError"
  ELSE IF node.id % 3 = direction THEN "ValueError: cannot actuate"
  ELSE "ok"

\* Mutant: the sign correction _c_id left at 1.
Servo_noSignCorrection(node, direction) ==
  [node |-> node, _planes |-> [i \in Axes |-> i # direction], _c_id |-> 1]

\* The servo Servo.__init__ builds: node, _planes and _c_id.
Servo(node, direction) ==
  [node |-> node,
   _planes |-> [i \in Axes |-> i # direction],
   _c_id |-> A(0, direction, node.id) + A(1, direction, node.id) + A(2, direction, node.id)]

\* Mutant: np.all in place of np.any.
conflicts_with_all(s, other) ==
  \A i \in Axes : s._planes[i] /\ other._planes[i] /\ planes_match(s.node, other.node)[i]

conflicts_with(s, other) ==
  \E i \in Axes : s._planes[i] /\ other._planes[i] /\ planes_match(s.node, other.node)[i]

\* np.nonzero(self.node.planes_match(node) & self._planes)[0]
shared_planes(s, node) == {i \in Axes : planes_match(s.node, node)[i] /\ s._planes[i]}

Abs(k) == IF k < 0 THEN 0 - k ELSE k

\* (-1) ** k for k >= 0
MinusOnePow(k) == IF k % 2 = 0 THEN 1 ELSE 0 - 1

\* Mutant: the checkerboard sign left out.
c_pos_one(s, node) == 1

\* c_pos = (-1)**abs((self.node.pos - node.pos).sum())
c_pos(s, node) ==
  MinusOnePow(Abs((s.node.pos[0] - node.pos[0]) + (s.node.pos[1] - node.pos[1])
                  + (s.node.pos[2] - node.pos[2])))

\* One pass of the loop body: the term plane p adds to ret[j], 0 when p is not shared.
PlaneTerm(s, node, amount, p, j) ==
  IF p \in shared_planes(s, node)
  THEN s._c_id * c_pos(s, node) * amount * A(p, j, node.id)
  ELSE 0

\* Mutant: ret starts as np.ones(3).
Servo_actuate_onesInit(s, node, amount) ==
  [j \in Axes |-> 1 + PlaneTerm(s, node, amount, 0, j) + PlaneTerm(s, node, amount, 1, j)
                  + PlaneTerm(s, node, amount, 2, j)]

\* Servo.actuate
Servo_actuate(s, node, amount) ==
  [j \in Axes |-> PlaneTerm(s, node, amount, 0, j) + PlaneTerm(s, node, amount, 1, j)
                  + PlaneTerm(s, node, amount, 2, j)]

\* ------------------------------------------------------------- Voxels
RECURSIVE SumContrib(_, _, _, _, _)
\* disp_e[j] after the inner loop has run over servos 1..k
SumContrib(ss, amounts, effector, j, k) ==
  IF k = 0 THEN 0
  ELSE SumContrib(ss, amounts, effector, j, k - 1) + Servo_actuate(ss[k], effector, amounts[k])[j]

\* Voxels.actuate once its assertion has passed: one vector per effector.
Voxels_actuate(ss, es, amounts) ==
  [e \in 1..Len(es) |-> [j \in Axes |-> SumContrib(ss, amounts, es[e], j, Len(ss))]]

\* The first servo of the list that conflicts with `new` exists.
AnyConflict(ss, new) == \E i \in 1..Len(ss) : conflicts_with(ss[i], new)

\* Mutant: the new servo is appended before the loop looks for a conflict.
add_servo_result_appendFirst(ss, x, y, z, nid, direction) ==
  IF ~NodeAccepts(x, y, z, nid)
  THEN [servos |-> ss, outcome |-> "AssertionError"]
  ELSE IF ServoOutcome(Node(x, y, z, nid), direction) # "ok"
  THEN [servos |-> ss, outcome |-> ServoOutcome(Node(x, y, z, nid), direction)]
  ELSE [servos |-> Append(ss, Servo(Node(x, y, z, nid), direction)),
        outcome |-> IF AnyConflict(ss, Servo(Node(x, y, z, nid), direction))
                    THEN "ValueError: overdetermined" ELSE "ok"]

\* What Voxels.add_servo does to the servo list and how it ends.
add_servo_result(ss, x, y, z, nid, direction) ==
  IF ~NodeAccepts(x, y, z, nid)
  THEN [servos |-> ss, outcome |-> "AssertionError"]
  ELSE IF ServoOutcome(Node(x, y, z, nid), direction) # "ok"
  THEN [servos |-> ss, outcome |-> ServoOutcome(Node(x, y, z, nid), direction)]
  ELSE IF AnyConflict(ss, Servo(Node(x, y, z, nid), direction))
  THEN [servos |-> ss, outcome |-> "ValueError: overdetermined"]
  ELSE [servos |-> Append(ss, Servo(Node(x, y, z, nid), direction)), outcome |-> "ok"]

\* Voxels.add_servo
add_servo(x, y, z, nid, direction) ==
  /\ \E r \in {add_servo_result(servos, x, y, z, nid, direction)} :
       servos' = r.servos /\ outcome' = r.outcome
  /\ op' = "add_servo"
  /\ ret' = <<>>
  /\ UNCHANGED effectors

\* Voxels.add_effector
add_effector(x, y, z, nid) ==
  /\ op' = "add_effector"
  /\ ret' = <<>>
  /\ IF NodeAccepts(x, y, z, nid)
     THEN /\ effectors' = Append(effectors, Node(x, y, z, nid))
          /\ outcome' = "ok"
     ELSE /\ effectors' = effectors
          /\ outcome' = "AssertionError"
  /\ UNCHANGED servos

\* Voxels.actuate(*amounts)
actuate(amounts) ==
  /\ op' = "actuate"
  /\ IF Len(amounts) = Len(servos)
     THEN /\ outcome' = "ok"
          /\ ret' = Voxels_actuate(servos, effectors, amounts)
     ELSE /\ outcome' = "AssertionError"
          /\ ret' = <<>>
  /\ UNCHANGED <<servos, effectors>>

\* ------------------------------------------------------------- Spec: an assembly
\* Any sequence of add_servo, add_effector and actuate calls on a new Voxels
\* object, at the voxels of the lattice line (x, 0, 0).
AmountVectors == UNION {[1..n -> Amounts] : n \in 0..MaxServos}

\* Voxels.__init__
Init ==
  /\ servos = <<>>
  /\ effectors = <<>>
  /\ op = "Voxels"
  /\ outcome = "ok"
  /\ ret = <<>>
  /\ input = <<>>

AddServo ==
  \E x \in Coords, nid \in NidInputs, direction \in DirInputs :
    /\ add_servo(x, 0, 0, nid, direction)
    /\ Len(servos') <= MaxServos
    /\ input' = <<>>

AddEffector ==
  \E x \in Coords, nid \in NidInputs :
    /\ NodeAccepts(x, 0, 0, nid) => Len(effectors) < MaxEffectors
    /\ add_effector(x, 0, 0, nid)
    /\ input' = <<>>

Actuate ==
  \E amounts \in AmountVectors :
    /\ actuate(amounts)
    /\ input' = amounts

Next == AddServo \/ AddEffector \/ Actuate

Spec == Init /\ [][Next]_vars

\* ------------------------------------------------------------- helpers of the properties
\* The direction a servo was built with: the one axis its _planes leaves out.
DirectionOf(s) == CHOOSE d \in Axes : ~s._planes[d]

\* The plane of motion of spec.md: the axis that is neither the direction
\* nor the node's id % 3.
PlaneOfMotion(s) == CHOOSE p \in Axes : p # DirectionOf(s) /\ p # s.node.id % 3

Zero3 == [j \in Axes |-> 0]

\* amount on axis d, 0 on the other two
Along(d, amount) == [j \in Axes |-> IF j = d THEN amount ELSE 0]

\* The other lattice address of the same physical node: id n+3 one voxel back
\* along axis n % 3, or id n-3 one voxel forward.
Alias(n) ==
  IF n.id < 3
  THEN [pos |-> [i \in Axes |-> IF i = n.id % 3 THEN n.pos[i] - 1 ELSE n.pos[i]], id |-> n.id + 3]
  ELSE [pos |-> [i \in Axes |-> IF i = n.id % 3 THEN n.pos[i] + 1 ELSE n.pos[i]], id |-> n.id - 3]

Last(seq) == seq[Len(seq)]

ValidNodes == {Node(x, y, z, nid) : x \in Coords, y \in Coords, z \in Coords, nid \in 0..5}

\* No call is made in between: the unused variables of a scenario's start.
Fresh ==
  /\ servos = <<>>
  /\ effectors = <<>>
  /\ op = "input"
  /\ outcome = "ok"
  /\ ret = <<>>

\* ------------------------------------------------------------- SpecNode: Node(x, y, z, nid)
InitNode ==
  /\ Fresh
  /\ input \in [x : Coords, y : Coords, z : Coords, nid : NidInputs]

\* Node.__init__
NodeInit ==
  /\ op = "input"
  /\ op' = "Node"
  /\ IF NodeAccepts(input.x, input.y, input.z, input.nid)
     THEN /\ outcome' = "ok"
          /\ ret' = Node(input.x, input.y, input.z, input.nid)
     ELSE /\ outcome' = "AssertionError"
          /\ ret' = <<>>
  /\ UNCHANGED <<servos, effectors, input>>

NextNode == NodeInit

SpecNode == InitNode /\ [][NextNode]_vars

\* ------------------------------------------------------------- SpecPlanes: n1.planes_match(n2)
InitPlanes ==
  /\ Fresh
  /\ input \in [n1 : ValidNodes, n2 : ValidNodes]

PlanesMatch ==
  /\ op = "input"
  /\ op' = "planes_match"
  /\ outcome' = "ok"
  /\ ret' = planes_match(input.n1, input.n2)
  /\ UNCHANGED <<servos, effectors, input>>

NextPlanes == PlanesMatch

SpecPlanes == InitPlanes /\ [][NextPlanes]_vars

\* ------------------------------------------------------------- SpecConflict: a.conflicts_with(b)
InitConflict ==
  /\ Fresh
  /\ input \in [n1 : ValidNodes, d1 : Axes, n2 : ValidNodes, d2 : Axes]

\* Servo(n1, d1).conflicts_with(Servo(n2, d2)): the first constructor that raises
\* ends the call.
ConflictsWith ==
  /\ op = "input"
  /\ op' = "conflicts_with"
  /\ IF ServoOutcome(input.n1, input.d1) # "ok"
     THEN outcome' = ServoOutcome(input.n1, input.d1) /\ ret' = <<>>
     ELSE IF ServoOutcome(input.n2, input.d2) # "ok"
     THEN outcome' = ServoOutcome(input.n2, input.d2) /\ ret' = <<>>
     ELSE /\ outcome' = "ok"
          /\ ret' = conflicts_with(Servo(input.n1, input.d1), Servo(input.n2, input.d2))
  /\ UNCHANGED <<servos, effectors, input>>

NextConflict == ConflictsWith

SpecConflict == InitConflict /\ [][NextConflict]_vars

\* ------------------------------------------------------------- SpecActuate: servo.actuate(node, amount)
InitActuate ==
  /\ Fresh
  /\ input \in [node : ValidNodes, direction : Axes, target : ValidNodes, amount : Amounts]

\* Servo(node, direction).actuate(target, amount)
ServoActuate ==
  /\ op = "input"
  /\ op' = "Servo.actuate"
  /\ IF ServoOutcome(input.node, input.direction) # "ok"
     THEN outcome' = ServoOutcome(input.node, input.direction) /\ ret' = <<>>
     ELSE /\ outcome' = "ok"
          /\ ret' = Servo_actuate(Servo(input.node, input.direction), input.target, input.amount)
  /\ UNCHANGED <<servos, effectors, input>>

NextActuate == ServoActuate

SpecActuate == InitActuate /\ [][NextActuate]_vars

\* ------------------------------------------------------------- SpecAdd: two add_servo calls
\* v = Voxels(); v.add_servo(*first); v.add_servo(*second), the second call made
\* whether or not the first one raised.
ServoArgs == [x : Coords, y : Coords, z : Coords, nid : 0..5, direction : Axes]

InitAdd ==
  /\ Fresh
  /\ input \in [first : ServoArgs, second : ServoArgs, done : {0}]

\* The arguments of the call that comes next.
NextCall == IF input.done = 0 THEN input.first ELSE input.second

AddNext ==
  /\ input.done < 2
  /\ add_servo(NextCall.x, NextCall.y, NextCall.z, NextCall.nid, NextCall.direction)
  /\ input' = [input EXCEPT !.done = @ + 1]

NextAdd == AddNext

SpecAdd == InitAdd /\ [][NextAdd]_vars

\* ------------------------------------------------------------- SpecBase: TestBaseNodeMovesByActuationAmount
\* v = Voxels(); v.add_servo(x, y, z, nid, direction); the servo's node and its
\* alias added as effectors, in either order; v.actuate(amount).
InitBase ==
  /\ Fresh
  /\ input \in [x : Coords, y : Coords, z : Coords, nid : 0..5, direction : Axes, amount : Amounts]

BaseNode == Node(input.x, input.y, input.z, input.nid)

BaseAddServo ==
  /\ op = "input"
  /\ add_servo(input.x, input.y, input.z, input.nid, input.direction)
  /\ UNCHANGED input

BaseAddEffector ==
  /\ Len(servos) = 1
  /\ op \in {"add_servo", "add_effector"}
  /\ \E n \in {BaseNode, Alias(BaseNode)} :
       /\ \A e \in 1..Len(effectors) : effectors[e] # n
       /\ add_effector(n.pos[0], n.pos[1], n.pos[2], n.id)
  /\ UNCHANGED input

BaseActuate ==
  /\ op = "add_effector"
  /\ Len(effectors) = 2
  /\ actuate(<<input.amount>>)
  /\ UNCHANGED input

NextBase == BaseAddServo \/ BaseAddEffector \/ BaseActuate

SpecBase == InitBase /\ [][NextBase]_vars

\* ------------------------------------------------------------- properties
\* C1 (Spec): an add_servo call either appends one servo that conflicts with none
\* of the servos already in the list, or raises and leaves the servo list as it
\* was; it never touches the effector list.  So a call with a conflicting servo
\* raises and changes nothing, and actuate accepts exactly as many amounts as
\* there are servos.
AddServoAllOrNothing ==
  [][/\ op' = "add_servo" =>
          /\ effectors' = effectors
          /\ \/ outcome' # "ok" /\ servos' = servos
             \/ /\ outcome' = "ok"
                /\ Len(servos') = Len(servos) + 1
                /\ SubSeq(servos', 1, Len(servos)) = servos
                /\ ~AnyConflict(servos, Last(servos'))
     /\ op' = "actuate" => (outcome' = "ok" <=> Len(input') = Len(servos))]_vars

\* A conflicting add_servo call has just raised on an assembly of two servos.
ConflictRaised ==
  /\ op = "add_servo"
  /\ outcome = "ValueError: overdetermined"
  /\ Len(servos) = 2

\* C2 (Spec): no two distinct servos of the list have the same plane of motion
\* and the same coordinate along it.
NoSharedPlaneOfMotion ==
  \A i, j \in 1..Len(servos) :
    i # j =>
      ~ /\ PlaneOfMotion(servos[i]) = PlaneOfMotion(servos[j])
        /\ servos[i].node.pos[PlaneOfMotion(servos[i])]
             = servos[j].node.pos[PlaneOfMotion(servos[i])]

\* Two servos with the same plane of motion are in the list, and a conflicting
\* servo has just been refused.
TwoServosOnePlane ==
  /\ Len(servos) = 2
  /\ PlaneOfMotion(servos[1]) = PlaneOfMotion(servos[2])
  /\ op = "add_servo"
  /\ outcome = "ValueError: overdetermined"

\* C3 (SpecConflict): a.conflicts_with(b) is true iff a and b have the same plane
\* of motion and their nodes the same coordinate along it.
ConflictIffSamePlaneOfMotion ==
  (op = "conflicts_with" /\ outcome = "ok") =>
    LET a == Servo(input.n1, input.d1)
        b == Servo(input.n2, input.d2)
    IN  ret <=> /\ PlaneOfMotion(a) = PlaneOfMotion(b)
                /\ input.n1.pos[PlaneOfMotion(a)] = input.n2.pos[PlaneOfMotion(a)]

\* C4 (SpecActuate): servo.actuate(node, amount) is the zero vector whenever the
\* node's coordinate along the servo's plane of motion differs from the servo's.
ActuateLocality ==
  (op = "Servo.actuate" /\ outcome = "ok") =>
    LET p == PlaneOfMotion(Servo(input.node, input.direction))
    IN  input.target.pos[p] # input.node.pos[p] => ret = Zero3

\* C5 (Spec): the displacements actuate returns are linear in the amounts:
\* actuate(k * a1) = k * actuate(a1) and actuate(a1) + actuate(a2) = actuate(a1 + a2).
Scaled(k, amounts) == [i \in 1..Len(amounts) |-> k * amounts[i]]

Added(a1, a2) == [i \in 1..Len(a1) |-> a1[i] + a2[i]]

ActuateLinear ==
  (op = "actuate" /\ outcome = "ok") =>
    /\ \A k \in Scalars :
         Voxels_actuate(servos, effectors, Scaled(k, input))
           = [e \in 1..Len(effectors) |-> [j \in Axes |-> k * ret[e][j]]]
    /\ \A a2 \in [1..Len(servos) -> Amounts] :
         Voxels_actuate(servos, effectors, Added(input, a2))
           = [e \in 1..Len(effectors) |->
                [j \in Axes |-> ret[e][j] + Voxels_actuate(servos, effectors, a2)[e][j]]]

\* actuate has returned the displacement of an effector that two servos move.
TwoServosMoveEffector ==
  /\ op = "actuate"
  /\ outcome = "ok"
  /\ Len(servos) = 2
  /\ Len(effectors) = 1
  /\ \A i \in 1..2 : input[i] # 0 /\ Servo_actuate(servos[i], effectors[1], input[i]) # Zero3
  /\ ret[1] # Zero3

\* C6 (SpecBase): with the single servo (pos, n, d) and its node and the node's
\* alias as effectors, actuate(amount) returns for both effectors amount on
\* axis d and 0 on the other two axes.
BaseNodeMovesByAmount ==
  op = "actuate" =>
    /\ outcome = "ok"
    /\ Len(ret) = 2
    /\ \A e \in 1..2 : ret[e] = Along(input.direction, input.amount)

\* The scenario has run to its end for a servo on a node of id >= 3.
BaseScenarioDone ==
  /\ op = "actuate"
  /\ input.amount # 0
  /\ input.nid >= 3
  /\ effectors = <<Alias(BaseNode), BaseNode>>

\* C7 (SpecAdd): an add_servo call whose direction is the node's id % 3 raises
\* and appends nothing; with either other direction the servo is built (the call
\* then appends it or finds a conflict).
DegenerateRejected ==
  [][input'.done = input.done + 1 =>
       IF NextCall.direction = NextCall.nid % 3
       THEN outcome' = "ValueError: cannot actuate" /\ servos' = servos
       ELSE /\ outcome' \in {"ok", "ValueError: overdetermined"}
            /\ outcome' = "ok" =>
                 servos' = Append(servos, Servo(Node(NextCall.x, NextCall.y, NextCall.z, NextCall.nid),
                                                NextCall.direction))]_vars

\* A degenerate servo has just been refused by an assembly that holds a servo.
DegenerateRefused ==
  /\ op = "add_servo"
  /\ input.done = 2
  /\ input.second.direction = input.second.nid % 3
  /\ outcome = "ValueError: cannot actuate"
  /\ Len(servos) = 1

\* C8 (SpecNode), as claimed: Node(x, y, z, nid) fails unless nid is in 0..5 and
\* nid % 3 is the one axis with an even coordinate.
EvenAxes == {i \in Axes : Node(input.x, input.y, input.z, 0).pos[i] % 2 = 0}

PlanesMatchSpec ==
  op = "planes_match" =>
    LET n1 == input.n1
        n2 == input.n2
        lo == IF n1.id < n2.id THEN n1 ELSE n2
        hi == IF n1.id < n2.id THEN n2 ELSE n1
    IN  /\ n1.id = n2.id => \A p \in Axes : ret[p] <=> n1.pos[p] = n2.pos[p]
        /\ hi.id = lo.id + 3 =>
             \A p \in Axes :
               ret[p] <=> IF p = lo.id % 3 THEN lo.pos[p] = hi.pos[p] + 1
                          ELSE lo.pos[p] = hi.pos[p]

\* Two nodes of paired ids, a voxel apart, share the axis of their ids.
PairedNodesShare ==
  /\ op = "planes_match"
  /\ input.n2.id = input.n1.id + 3
  /\ input.n1.pos # input.n2.pos
  /\ ret[input.n1.id % 3]

\* C10 (SpecActuate): servo.actuate returns the same vector when the target node,
\* or the servo's node, is replaced by its alias, the other address of the same
\* position.
AddressIndependent ==
  (op = "Servo.actuate" /\ outcome = "ok") =>
    /\ position2(Alias(input.target)) = position2(input.target)
    /\ position2(Alias(input.node)) = position2(input.node)
    /\ ServoOutcome(Alias(input.node), input.direction) = "ok"
    /\ Servo_actuate(Servo(input.node, input.direction), Alias(input.target), input.amount) = ret
    /\ Servo_actuate(Servo(Alias(input.node), input.direction), input.target, input.amount) = ret

\* A servo has moved a node of another voxel.
ActuatedAcrossVoxels ==
  /\ op = "Servo.actuate"
  /\ outcome = "ok"
  /\ ret # Zero3
  /\ input.target.pos # input.node.pos
  /\ c_pos(Servo(input.node, input.direction), input.target) = 0 - 1

====
